---- MODULE Spec2Model ----
(***************************************************************************)
(* Travel Guide (travel_guide.py): the Markdown -> flowables line          *)
(* classifier (markdown_to_flowables), the PDF story built by write_pdf,   *)
(* the model fallback loop of get_plan_markdown and the session state the  *)
(* Streamlit script keeps between runs.                                    *)
(*                                                                         *)
(* A text is a sequence of one-character strings, so that splitlines,      *)
(* strip, startswith and slicing are computed character by character.      *)
(***************************************************************************)
EXTENDS Integers, Sequences, FiniteSets, TLC

VARIABLES
    \* ---- one call of write_pdf (which calls markdown_to_flowables) ----
    md_text,        \* the markdown_text argument
    now,            \* what datetime.now() formats to in this call
    pc,             \* position of the call: "call", "loop", "build", "done", "failed"
    lines,          \* md_text.splitlines()
    i,              \* the line index of the while loop (0-based)
    flow,           \* the flowables emitted so far
    story,          \* the story handed to doc.build
    \* ---- the Streamlit session ----
    session_state,  \* st.session_state: a function from the keys present to their values
    event,          \* the latest script run: what started it and what happened in it
    screen          \* what the latest script run put on the page, in order

pdfVars == <<md_text, now, pc, lines, i, flow, story>>
appVars == <<session_state, event, screen>>
vars == <<md_text, now, pc, lines, i, flow, story, session_state, event, screen>>

(***************************************************************************)
(* Bounds of the model.                                                    *)
(***************************************************************************)
MaxTextLen == 5

(***************************************************************************)
(* Characters.                                                             *)
(***************************************************************************)
NL == "\n"
CR == "\r"
TAB == "\t"
SP == " "
HASH == "#"
DASH == "-"
STAR == "*"
\* the bullet glyph U+2022, one character of a text
DOT == "u2022"

\* the characters str.strip() removes, among those of the model's alphabet
Whitespace == {SP, TAB, NL, CR}
\* the line boundaries str.splitlines() knows, among those of the alphabet
LineBreaks == {NL, CR}
\* lines 236, 238: startswith(("-", "*", bullet glyph))
BulletMarkers == {DASH, STAR, DOT}

(***************************************************************************)
(* Python string operations.                                               *)
(***************************************************************************)
RECURSIVE lstrip(_)
lstrip(s) ==
    IF s = <<>> THEN <<>>
    ELSE IF Head(s) \in Whitespace THEN lstrip(Tail(s)) ELSE s

RECURSIVE rstrip(_)
rstrip(s) ==
    IF s = <<>> THEN <<>>
    ELSE IF s[Len(s)] \in Whitespace THEN rstrip(SubSeq(s, 1, Len(s) - 1)) ELSE s

strip(s) == lstrip(rstrip(s))

\* s.startswith(p)
startswith(s, p) == Len(s) >= Len(p) /\ SubSeq(s, 1, Len(p)) = p

\* s.startswith(tuple of one-character markers)
startswithAny(s, markers) == Len(s) >= 1 /\ s[1] \in markers

\* s[k:]
SliceFrom(s, k) == SubSeq(s, k + 1, Len(s))

\* str.splitlines(): a line ends at "\n", "\r" or "\r\n"; the boundary is not
\* kept; no empty last line is produced after a final boundary.
RECURSIVE SplitFrom(_, _, _, _)
SplitFrom(s, k, cur, acc) ==
    IF k > Len(s) THEN (IF cur = <<>> THEN acc ELSE Append(acc, cur))
    ELSE IF s[k] \in LineBreaks
         THEN IF s[k] = CR /\ k < Len(s) /\ s[k + 1] = NL
              THEN SplitFrom(s, k + 2, <<>>, Append(acc, cur))
              ELSE SplitFrom(s, k + 1, <<>>, Append(acc, cur))
         ELSE SplitFrom(s, k + 1, Append(cur, s[k]), acc)

splitlines(s) == SplitFrom(s, 1, <<>>, <<>>)

(***************************************************************************)
(* ReportLab flowables, as the values the code constructs.                 *)
(***************************************************************************)
Spacer(w, h) == [kind |-> "Spacer", width |-> w, height |-> h]
Paragraph(text, style) == [kind |-> "Paragraph", text |-> text, style |-> style]
ListItem(para, indent) == [kind |-> "ListItem", para |-> para, leftIndent |-> indent]
ListFlowable(items) ==
    [kind |-> "ListFlowable", items |-> items, bulletType |-> "bullet",
     start |-> DOT, leftIndent |-> 6]

(***************************************************************************)
(* markdown_to_flowables: one pass of the while loop, branch by branch.    *)
(* k is the 0-based line index i of the code; ls[k + 1] is lines[i].       *)
(***************************************************************************)
H2Marker == <<HASH, HASH, SP>>
H3Marker == <<HASH, HASH, HASH, SP>>

\* line 220: line = lines[i].rstrip()
CurLine(ls, k) == rstrip(ls[k + 1])

\* Branch with the level-2 test written without the space of the marker
BranchLooseMarker(ls, k) ==
    LET line == CurLine(ls, k) IN
    IF strip(line) = <<>> THEN "blank"
    ELSE IF startswith(line, <<HASH, HASH>>) THEN "h2"
    ELSE IF startswith(line, H3Marker) THEN "h3"
    ELSE IF startswithAny(lstrip(line), BulletMarkers) THEN "bullets"
    ELSE "paragraph"

\* lines 222-246: which branch of the loop body the line takes
Branch(ls, k) ==
    LET line == CurLine(ls, k) IN
    IF strip(line) = <<>> THEN "blank"
    ELSE IF startswith(line, H2Marker) THEN "h2"
    ELSE IF startswith(line, H3Marker) THEN "h3"
    ELSE IF startswithAny(lstrip(line), BulletMarkers) THEN "bullets"
    ELSE "paragraph"

\* BlankPass that skips the blank line without a spacer
BlankPassSilent(ls, k) == [i |-> k + 1, out |-> <<>>]

\* lines 222-225
BlankPass(ls, k) == [i |-> k + 1, out |-> <<Spacer(1, 6)>>]

\* lines 227-230
H2Pass(ls, k) ==
    [i |-> k + 1, out |-> <<Paragraph(strip(SliceFrom(CurLine(ls, k), 3)), "H2")>>]

\* lines 231-234
H3Pass(ls, k) ==
    [i |-> k + 1, out |-> <<Paragraph(strip(SliceFrom(CurLine(ls, k), 4)), "H3")>>]

\* BulletItems that keeps only the item of the line just read
RECURSIVE BulletItemsKeepLast(_, _, _)
BulletItemsKeepLast(ls, k, items) ==
    IF k < Len(ls) /\ startswithAny(lstrip(ls[k + 1]), BulletMarkers)
    THEN LET bullet_text == strip(SliceFrom(lstrip(ls[k + 1]), 1))
         IN  BulletItemsKeepLast(ls, k + 1,
                                 <<ListItem(Paragraph(bullet_text, "BodyText"), 12)>>)
    ELSE [i |-> k, items |-> items]

\* BulletItems whose loop condition knows the hyphen only
RECURSIVE BulletItemsDashOnly(_, _, _)
BulletItemsDashOnly(ls, k, items) ==
    IF k < Len(ls) /\ startswithAny(lstrip(ls[k + 1]), {DASH})
    THEN LET bullet_text == strip(SliceFrom(lstrip(ls[k + 1]), 1))
         IN  BulletItemsDashOnly(ls, k + 1,
                                 Append(items, ListItem(Paragraph(bullet_text, "BodyText"), 12)))
    ELSE [i |-> k, items |-> items]

\* lines 238-241: the inner while loop
RECURSIVE BulletItems(_, _, _)
BulletItems(ls, k, items) ==
    IF k < Len(ls) /\ startswithAny(lstrip(ls[k + 1]), BulletMarkers)
    THEN LET bullet_text == strip(SliceFrom(lstrip(ls[k + 1]), 1))
         IN  BulletItems(ls, k + 1,
                         Append(items, ListItem(Paragraph(bullet_text, "BodyText"), 12)))
    ELSE [i |-> k, items |-> items]

\* BulletPass without the spacer of line 243
BulletPassNoSpacer(ls, k) ==
    LET r == BulletItems(ls, k, <<>>)
    IN  [i |-> r.i, out |-> <<ListFlowable(r.items)>>]

\* lines 236-244
BulletPass(ls, k) ==
    LET r == BulletItems(ls, k, <<>>)
    IN  [i |-> r.i, out |-> <<ListFlowable(r.items), Spacer(1, 4)>>]

\* lines 246-247
ParagraphPass(ls, k) ==
    [i |-> k + 1, out |-> <<Paragraph(CurLine(ls, k), "BodyText")>>]

\* lines 219-247: the loop body
LoopPass(ls, k) ==
    CASE Branch(ls, k) = "blank"     -> BlankPass(ls, k)
      [] Branch(ls, k) = "h2"        -> H2Pass(ls, k)
      [] Branch(ls, k) = "h3"        -> H3Pass(ls, k)
      [] Branch(ls, k) = "bullets"   -> BulletPass(ls, k)
      [] Branch(ls, k) = "paragraph" -> ParagraphPass(ls, k)

\* lines 218-249: while i < len(lines)
RECURSIVE WhileLoop(_, _, _)
WhileLoop(ls, k, fl) ==
    IF k < Len(ls)
    THEN LET r == LoopPass(ls, k) IN WhileLoop(ls, r.i, fl \o r.out)
    ELSE fl

\* lines 204-249, as a function of the text
markdown_to_flowables(text) == WhileLoop(splitlines(text), 0, <<>>)

(***************************************************************************)
(* write_pdf: the story.                                                   *)
(***************************************************************************)
TitleText == <<"T", "r", "a", "v", "e", "l", SP, "P", "l", "a", "n">>

\* line 274: f"Generated: {datetime.now().strftime(...)}"
MetaText(ts) == <<"Generated: ", ts>>

\* StoryHeader with the timestamp line appended before the title
StoryHeaderMetaFirst(ts) ==
    <<Paragraph(MetaText(ts), "Normal"), Paragraph(TitleText, "Header"), Spacer(1, 10)>>

\* lines 272-276
StoryHeader(ts) ==
    <<Paragraph(TitleText, "Header"), Paragraph(MetaText(ts), "Normal"), Spacer(1, 10)>>

(***************************************************************************)
(* The inputs of the model.                                                *)
(***************************************************************************)
CoreChars == {NL, SP, HASH, DASH, "a"}

\* every text over CoreChars of at most n characters
TextsUpTo(n) == UNION {[1..k -> CoreChars] : k \in 0..n}

\* Scenario of the specification, section 8
ScenarioText ==
    <<HASH, HASH, SP, "T", "r", "i", "p", SP, "O", "v", "e", "r", "v", "i", "e", "w", NL,
      "S", "a", "m", "p", "l", "e", SP, "t", "e", "x", "t", ".", NL,
      NL,
      HASH, HASH, HASH, SP, "D", "a", "y", SP, "1", NL,
      DASH, SP, "M", "u", "s", "e", "u", "m", SP, "v", "i", "s", "i", "t", NL,
      DASH, SP, "C", "o", "f", "f", "e", "e", SP, "b", "r", "e", "a", "k", NL>>

\* texts with the characters and the shapes that TextsUpTo does not reach
ExtraTexts ==
    { ScenarioText,
      <<STAR, SP, "a", NL, SP, SP, DOT, "b", NL, DASH, NL, "c">>,
      <<DASH, "a", CR, NL, STAR, TAB, "b", TAB, CR, TAB, NL, DOT>>,
      <<HASH, HASH, HASH, SP, SP, "a", SP, NL, DASH, SP, NL, HASH, HASH, SP, "b">>,
      <<HASH, HASH, TAB, "a", NL, HASH, HASH, HASH, "a", NL, SP, HASH, HASH, SP, "a">>,
      <<HASH, HASH, HASH, SP, HASH, NL, NL, SP, DASH, DASH, NL, TAB, STAR, NL, NL, DOT, SP, "a">>,
      <<"a", SP, NL, HASH, HASH, HASH, SP, TAB, NL, DASH, HASH, HASH, SP, "a">> }

Texts == TextsUpTo(MaxTextLen) \cup ExtraTexts

Clocks == {"2026-11-01 09:00", "2026-11-01 09:01"}

(***************************************************************************)
(* One call of write_pdf.                                                  *)
(***************************************************************************)
\* the session part of a state in which no script run has happened
NoSession ==
    /\ session_state = <<>>
    /\ event = <<>>
    /\ screen = <<>>

Init ==
    /\ md_text \in Texts
    /\ now \in Clocks
    /\ pc = "call"
    /\ lines = <<>>
    /\ i = 0
    /\ flow = <<>>
    /\ story = <<>>
    /\ NoSession

\* lines 272-276, then the call of line 278 up to line 218
Call ==
    /\ pc = "call"
    /\ story' = StoryHeader(now)
    /\ lines' = splitlines(md_text)
    /\ i' = 0
    /\ flow' = <<>>
    /\ pc' = "loop"
    /\ UNCHANGED <<md_text, now>>
    /\ UNCHANGED appVars

InLoop(b) == pc = "loop" /\ i < Len(lines) /\ Branch(lines, i) = b

Advance(r) ==
    /\ i' = r.i
    /\ flow' = flow \o r.out
    /\ UNCHANGED <<md_text, now, pc, lines, story>>
    /\ UNCHANGED appVars

BlankLine == InLoop("blank") /\ Advance(BlankPass(lines, i))

Heading2 == InLoop("h2") /\ Advance(H2Pass(lines, i))

Heading3 == InLoop("h3") /\ Advance(H3Pass(lines, i))

BulletList == InLoop("bullets") /\ Advance(BulletPass(lines, i))

PlainParagraph == InLoop("paragraph") /\ Advance(ParagraphPass(lines, i))

\* line 219 false, line 249, and line 278: story.extend(...)
LoopExit ==
    /\ pc = "loop"
    /\ ~(i < Len(lines))
    /\ story' = story \o flow
    /\ pc' = "build"
    /\ UNCHANGED <<md_text, now, lines, i, flow>>
    /\ UNCHANGED appVars

\* lines 279-280: doc.build(story) returns
BuildOk ==
    /\ pc = "build"
    /\ pc' = "done"
    /\ UNCHANGED <<md_text, now, lines, i, flow, story>>
    /\ UNCHANGED appVars

\* line 279: doc.build(story) raises (the file cannot be written, a layout error)
BuildFail ==
    /\ pc = "build"
    /\ pc' = "failed"
    /\ UNCHANGED <<md_text, now, lines, i, flow, story>>
    /\ UNCHANGED appVars

Next ==
    \/ Call
    \/ BlankLine
    \/ Heading2
    \/ Heading3
    \/ BulletList
    \/ PlainParagraph
    \/ LoopExit
    \/ BuildOk
    \/ BuildFail

Spec == Init /\ [][Next]_vars

\* the steps of the while loop of markdown_to_flowables and its exit
LoopStep == BlankLine \/ Heading2 \/ Heading3 \/ BulletList \/ PlainParagraph \/ LoopExit

\* the interpreter keeps executing a loop it has entered
FairSpec == Spec /\ WF_vars(LoopStep)

(***************************************************************************)
(* st.session_state: a dictionary, here a function from the keys present.  *)
(***************************************************************************)
Has(ss, key) == key \in DOMAIN ss
Put(ss, key, val) == (key :> val) @@ ss
Pop(ss, key) == [k \in DOMAIN ss \ {key} |-> ss[k]]
Get(ss, key, default) == IF Has(ss, key) THEN ss[key] ELSE default
SetDefault(ss, key, val) == IF Has(ss, key) THEN ss ELSE Put(ss, key, val)

\* Python's None
None == "None"

\* lines 63-68
init_form_state(ss) ==
    SetDefault(SetDefault(SetDefault(SetDefault(SetDefault(ss,
        "destination", <<>>), "num_days", 3), "interests", <<>>), "guardrails", <<>>),
        "plan_md", <<>>)

\* lines 70-77
reset_all_callback(ss) ==
    Pop(Pop(Put(Put(Put(Put(Put(ss,
        "destination", <<>>), "num_days", 3), "interests", <<>>), "guardrails", <<>>),
        "plan_md", <<>>), "last_model_used"), "last_usage")

\* clear_fields_only_callback written as a copy of reset_all_callback
clear_fields_like_reset(ss) == reset_all_callback(ss)

\* lines 79-83
clear_fields_only_callback(ss) ==
    Put(Put(Put(Put(ss,
        "destination", <<>>), "num_days", 3), "interests", <<>>), "guardrails", <<>>)

(***************************************************************************)
(* The chat completion API and get_plan_markdown.                          *)
(***************************************************************************)
\* line 146
FALLBACK_MODELS == <<"gpt-5", "gpt-5-mini", "gpt-4.1">>

\* What client.chat.completions.create can do for one model: raise, or return
\* a completion whose message content is a string, a list of parts or None.
StrContent(text) == [type |-> "str", text |-> text, parts |-> <<>>]
ListContent(parts) == [type |-> "list", text |-> <<>>, parts |-> parts]
NoContent == [type |-> "none", text |-> <<>>, parts |-> <<>>]
StrPart(text) == [type |-> "str", val |-> text]
DictPart(text) == [type |-> "dict", val |-> text]
OtherPart == [type |-> "other", val |-> <<>>]

ApiError == [kind |-> "error", content |-> NoContent, usage |-> None]
Completion(content, usage) == [kind |-> "completion", content |-> content, usage |-> usage]

Responses ==
    { ApiError,
      Completion(StrContent(<<SP, NL>>), "u0"),
      Completion(StrContent(<<HASH, HASH, SP, "a", NL, DASH, SP, "b", NL>>), "u1"),
      Completion(ListContent(<<StrPart(<<"c">>), OtherPart, DictPart(<<DASH, "d", SP>>)>>), None),
      Completion(ListContent(<<StrPart(<<SP>>), OtherPart>>), "u2") }

\* what the self-test call can get: also a completion without content
PingResponses == Responses \cup {Completion(NoContent, None)}

\* "\n".join(parts)
RECURSIVE JoinLines(_)
JoinLines(parts) ==
    IF parts = <<>> THEN <<>>
    ELSE IF Len(parts) = 1 THEN parts[1]
    ELSE parts[1] \o <<NL>> \o JoinLines(Tail(parts))

\* lines 157-162: the strings of the parts of a list content
RECURSIVE PartTexts(_)
PartTexts(ps) ==
    IF ps = <<>> THEN <<>>
    ELSE IF Head(ps).type \in {"str", "dict"}
         THEN <<Head(ps).val>> \o PartTexts(Tail(ps))
         ELSE PartTexts(Tail(ps))

\* lines 148-168 (_extract_text_from_chat_completion)
extract_text_from_chat_completion(comp) ==
    LET txt == comp.content IN
    IF txt.type = "str" /\ strip(txt.text) # <<>> THEN txt.text
    ELSE IF txt.type = "list" /\ strip(JoinLines(PartTexts(txt.parts))) # <<>>
         THEN strip(JoinLines(PartTexts(txt.parts)))
         ELSE <<>>

\* the for loop of get_plan_markdown stopping at the first empty content
RECURSIVE TryModelsRaiseOnEmpty(_, _, _, _)
TryModelsRaiseOnEmpty(k, resp, ss, attempts) ==
    IF k > Len(FALLBACK_MODELS)
    THEN [ok |-> FALSE, text |-> <<>>, session |-> ss, attempts |-> attempts]
    ELSE LET model_name == FALLBACK_MODELS[k]
             comp == resp[k]
             tried == Append(attempts, model_name)
         IN  IF comp.kind = "error"
             THEN TryModelsRaiseOnEmpty(k + 1, resp, ss, tried)
             ELSE LET text == extract_text_from_chat_completion(comp) IN
                  IF strip(text) # <<>>
                  THEN [ok |-> TRUE, text |-> text, attempts |-> tried,
                        session |-> Put(Put(ss, "last_model_used", model_name),
                                        "last_usage", comp.usage)]
                  ELSE [ok |-> FALSE, text |-> <<>>, session |-> ss, attempts |-> tried]

\* lines 181-199: the for loop over FALLBACK_MODELS, from its k-th model on;
\* resp[k] is what the API does when called with FALLBACK_MODELS[k];
\* ok = FALSE is the RuntimeError of line 199.
RECURSIVE TryModels(_, _, _, _)
TryModels(k, resp, ss, attempts) ==
    IF k > Len(FALLBACK_MODELS)
    THEN [ok |-> FALSE, text |-> <<>>, session |-> ss, attempts |-> attempts]
    ELSE LET model_name == FALLBACK_MODELS[k]
             comp == resp[k]
             tried == Append(attempts, model_name)
         IN  IF comp.kind = "error"
             THEN TryModels(k + 1, resp, ss, tried)
             ELSE LET text == extract_text_from_chat_completion(comp) IN
                  IF strip(text) # <<>>
                  THEN [ok |-> TRUE, text |-> text, attempts |-> tried,
                        session |-> Put(Put(ss, "last_model_used", model_name),
                                        "last_usage", comp.usage)]
                  ELSE TryModels(k + 1, resp, ss, tried)

\* lines 170-199
get_plan_markdown(resp, ss) == TryModels(1, resp, ss, <<>>)

(***************************************************************************)
(* The script, run top to bottom on every interaction.                     *)
(***************************************************************************)
\* one thing put on the page: the Streamlit call and the text it shows
W(what, text) == [w |-> what, v |-> text]

\* the except branch of lines 353-355 without the assignment of line 355
PlanKeptOnError(g, old) == IF g.ok THEN g.text ELSE old

\* lines 351-355: the value plan_md gets from the try statement
PlanAfterGeneration(g, old) == IF g.ok THEN g.text ELSE <<>>

\* lines 358-381 with write_pdf called before the plan is displayed
PlanPageExportFirst(ss, pdf_ok) ==
    <<W("success", <<>>),
      W("caption_model", <<Get(ss, "last_model_used", "unknown")>>)>>
    \o (IF Get(ss, "last_usage", None) # None
        THEN <<W("caption_usage", <<ss["last_usage"]>>)>> ELSE <<>>)
    \o (IF pdf_ok
        THEN <<W("subheader", <<>>), W("markdown", ss["plan_md"]),
               W("text_area", ss["plan_md"]), W("download_button", <<>>)>>
        ELSE <<W("error_pdf", <<>>), W("info_copy", <<>>)>>)

\* lines 358-381: the page of a submitted run whose plan_md is not blank
PlanPage(ss, pdf_ok) ==
    <<W("success", <<>>),
      W("caption_model", <<Get(ss, "last_model_used", "unknown")>>)>>
    \o (IF Get(ss, "last_usage", None) # None
        THEN <<W("caption_usage", <<ss["last_usage"]>>)>> ELSE <<>>)
    \o <<W("subheader", <<>>), W("markdown", ss["plan_md"]), W("text_area", ss["plan_md"])>>
    \o (IF pdf_ok
        THEN <<W("download_button", <<>>)>>
        ELSE <<W("error_pdf", <<>>), W("info_copy", <<>>)>>)

\* lines 383-384
EmptyPage == <<W("warning_empty", <<>>), W("info_try_again", <<>>)>>

\* lines 386-390: the page of a run that was not submitted
IdlePage(ss) ==
    IF Has(ss, "plan_md") /\ strip(ss["plan_md"]) # <<>>
    THEN <<W("subheader_last", <<>>), W("markdown", ss["plan_md"])>>
    ELSE <<W("info_fill", <<>>)>>

\* what the user can have typed into the form (lines 285-314): the destination
\* may be empty or blank; number_input keeps num_days within 1..30
Forms ==
    { [destination |-> <<>>, num_days |-> 3, interests |-> <<>>, guardrails |-> <<>>],
      [destination |-> <<SP>>, num_days |-> 1, interests |-> <<"x">>, guardrails |-> <<>>],
      [destination |-> <<SP, "R">>, num_days |-> 30, interests |-> <<"x">>, guardrails |-> <<"y">>] }

WithForm(ss, f) ==
    Put(Put(Put(Put(ss, "destination", f.destination), "num_days", f.num_days),
            "interests", f.interests), "guardrails", f.guardrails)

NoRun(kind) ==
    [kind |-> kind, gen |-> "none", attempts |-> <<>>, resp |-> <<>>, text |-> <<>>,
     pdf |-> "none"]

AppInit ==
    /\ md_text = <<>>
    /\ now = "never"
    /\ pc = "idle"
    /\ lines = <<>>
    /\ i = 0
    /\ flow = <<>>
    /\ story = <<>>
    /\ session_state = init_form_state(<<>>)
    /\ event = NoRun("first")
    /\ screen = IdlePage(init_form_state(<<>>))

\* the texts get_plan_markdown can return, and for each of them the lines and
\* the flowables markdown_to_flowables makes of it
PlanTexts == {extract_text_from_chat_completion(r) : r \in Responses}
Rendered ==
    [t \in PlanTexts |-> [lines |-> splitlines(t), flow |-> markdown_to_flowables(t)]]

\* the write_pdf call of line 371, start to end
WritePdfCall(text, ts, ok) ==
    /\ md_text' = text
    /\ now' = ts
    /\ lines' = Rendered[text].lines
    /\ i' = Len(Rendered[text].lines)
    /\ flow' = Rendered[text].flow
    /\ story' = StoryHeader(ts) \o Rendered[text].flow
    /\ pc' = IF ok THEN "done" ELSE "failed"

\* lines 357-384 of a submitted run: the page for the session ss, after the
\* messages of lines 340-354, and the PDF export when plan_md is not blank
SubmittedPage(ss, notes, ev) ==
    /\ session_state' = ss
    /\ IF strip(ss["plan_md"]) # <<>>
       THEN \E pdf_ok \in BOOLEAN, ts \in Clocks :
               /\ screen' = notes \o PlanPage(ss, pdf_ok)
               /\ event' = [ev EXCEPT !.pdf = IF pdf_ok THEN "ok" ELSE "failed"]
               /\ WritePdfCall(ss["plan_md"], ts, pdf_ok)
       ELSE /\ screen' = notes \o EmptyPage
            /\ event' = ev
            /\ UNCHANGED pdfVars

\* "Generate Travel Plan" pressed: the form values are stored under their
\* keys and the script runs with submitted = True (lines 335-384)
Submit ==
    \E f \in Forms :
    \E ss1 \in {init_form_state(WithForm(session_state, f))} :
       IF strip(ss1["destination"]) = <<>>
       THEN SubmittedPage(ss1, <<W("warning_destination", <<>>)>>, NoRun("submit"))
       ELSE IF ss1["num_days"] < 1
       THEN SubmittedPage(ss1, <<W("warning_days", <<>>)>>, NoRun("submit"))
       ELSE \E resp \in [1..Len(FALLBACK_MODELS) -> Responses] :
            \E g \in {get_plan_markdown(resp, ss1)} :
               SubmittedPage(
                   Put(g.session, "plan_md", PlanAfterGeneration(g, ss1["plan_md"])),
                   IF g.ok THEN <<>> ELSE <<W("error_generation", <<>>)>>,
                   [kind |-> "submit", gen |-> IF g.ok THEN "ok" ELSE "raised",
                    attempts |-> g.attempts, resp |-> resp, text |-> g.text,
                    pdf |-> "none"])

\* any other interaction: the script runs with submitted = False (lines 385-390)
Rerun ==
    /\ session_state' = init_form_state(session_state)
    /\ screen' = IdlePage(init_form_state(session_state))
    /\ event' = NoRun("rerun")
    /\ UNCHANGED pdfVars

\* "Run quick API self-test" pressed (lines 319-330), then lines 385-390
SelfTest ==
    \E ping \in PingResponses :
       /\ session_state' = init_form_state(session_state)
       /\ screen' = (IF ping.kind = "error"
                     THEN <<W("error_selftest", <<>>)>>
                     ELSE <<W("success_selftest", <<>>),
                            W("code", extract_text_from_chat_completion(ping))>>)
                    \o IdlePage(init_form_state(session_state))
       /\ event' = NoRun("selftest")
       /\ UNCHANGED pdfVars

\* "Reset form + clear plan" pressed: the callback, then the script (line 395)
ResetAll ==
    /\ session_state' = init_form_state(reset_all_callback(session_state))
    /\ screen' = IdlePage(init_form_state(reset_all_callback(session_state)))
    /\ event' = NoRun("reset_all")
    /\ UNCHANGED pdfVars

\* "Clear fields only" pressed: the callback, then the script (line 397)
ClearFields ==
    /\ session_state' = init_form_state(clear_fields_only_callback(session_state))
    /\ screen' = IdlePage(init_form_state(clear_fields_only_callback(session_state)))
    /\ event' = NoRun("clear_fields")
    /\ UNCHANGED pdfVars

AppNext ==
    \/ Submit
    \/ Rerun
    \/ SelfTest
    \/ ResetAll
    \/ ClearFields

AppSpec == AppInit /\ [][AppNext]_vars

(***************************************************************************)
(* Vocabulary of the specification, defined without the operators of the   *)
(* model: what a line is, what its text is once the marker is stripped,    *)
(* and which layout block (Blank, Heading, ListBlock, Paragraph) a         *)
(* flowable is.                                                            *)
(***************************************************************************)
InkAt(s) == {k \in 1..Len(s) : s[k] \notin Whitespace}
FirstInk(s) == CHOOSE k \in InkAt(s) : \A j \in InkAt(s) : k <= j
LastInk(s) == CHOOSE k \in InkAt(s) : \A j \in InkAt(s) : j <= k

IsBlankText(s) == InkAt(s) = {}
TrimRight(s) == IF IsBlankText(s) THEN <<>> ELSE SubSeq(s, 1, LastInk(s))
TrimLeft(s) == IF IsBlankText(s) THEN <<>> ELSE SubSeq(s, FirstInk(s), Len(s))
Trim(s) == IF IsBlankText(s) THEN <<>> ELSE SubSeq(s, FirstInk(s), LastInk(s))
Drop(s, n) == [k \in 1..(IF Len(s) > n THEN Len(s) - n ELSE 0) |-> s[k + n]]
HasPrefix(s, p) == Len(s) >= Len(p) /\ \A k \in 1..Len(p) : s[k] = p[k]

\* a line is classified with its trailing whitespace trimmed (section 4.1, step 1)
IsH2Line(l) == HasPrefix(TrimRight(l), <<"#", "#", " ">>)
IsH3Line(l) == HasPrefix(TrimRight(l), <<"#", "#", "#", " ">>)
IsBulletLine(l) == ~IsBlankText(l) /\ TrimLeft(l)[1] \in {"-", "*", DOT}

\* the text of a non-blank line with its heading or bullet marker stripped
Unmarked(l) ==
    IF IsH2Line(l) THEN Trim(Drop(TrimRight(l), 3))
    ELSE IF IsH3Line(l) THEN Trim(Drop(TrimRight(l), 4))
    ELSE IF IsBulletLine(l) THEN Trim(Drop(TrimLeft(l), 1))
    ELSE TrimRight(l)

Blank(h) == Spacer(1, h)
Heading(level, text) == Paragraph(text, IF level = 2 THEN "H2" ELSE "H3")
PlainText(text) == Paragraph(text, "BodyText")
ListBlock(texts) ==
    ListFlowable([k \in 1..Len(texts) |-> ListItem(Paragraph(texts[k], "BodyText"), 12)])

IsListBlock(b) == b.kind = "ListFlowable"
ItemTexts(b) == [k \in 1..Len(b.items) |-> b.items[k].para.text]

\* the texts a block carries
BlockTexts(b) ==
    IF b.kind = "Paragraph" THEN <<b.text>>
    ELSE IF IsListBlock(b) THEN ItemTexts(b)
    ELSE <<>>

RECURSIVE FlowTexts(_)
FlowTexts(fl) == IF fl = <<>> THEN <<>> ELSE BlockTexts(Head(fl)) \o FlowTexts(Tail(fl))

NonBlank(ls) == SelectSeq(ls, LAMBDA l : ~IsBlankText(l))
ExpectedTexts(ls) == [k \in 1..Len(NonBlank(ls)) |-> Unmarked(NonBlank(ls)[k])]

\* the n-th smallest element of a set of integers
Nth(S, n) == CHOOSE x \in S : Cardinality({y \in S : y < x}) = n - 1

\* the maximal runs of consecutive bullet lines, as <<first, last>> line numbers
Runs(ls) ==
    {r \in (1..Len(ls)) \X (1..Len(ls)) :
        /\ r[1] <= r[2]
        /\ \A k \in r[1]..r[2] : IsBulletLine(ls[k])
        /\ (r[1] = 1 \/ ~IsBulletLine(ls[r[1] - 1]))
        /\ (r[2] = Len(ls) \/ ~IsBulletLine(ls[r[2] + 1]))}
RunStarts(ls) == {r[1] : r \in Runs(ls)}
RunFrom(ls, a) == CHOOSE r \in Runs(ls) : r[1] = a
RunTexts(ls, r) == [k \in 1..(r[2] - r[1] + 1) |-> Trim(Drop(TrimLeft(ls[r[1] + k - 1]), 1))]

ListBlockAt(fl) == {k \in 1..Len(fl) : IsListBlock(fl[k])}

\* the single block of a line that is no bullet line
LineBlock(l) ==
    IF IsBlankText(l) THEN Blank(6)
    ELSE IF IsH2Line(l) THEN Heading(2, Unmarked(l))
    ELSE IF IsH3Line(l) THEN Heading(3, Unmarked(l))
    ELSE PlainText(Unmarked(l))

\* the blocks of a document, from its last line backwards: a document that
\* ends with a bullet run is the document before the run, then the run's
\* ListBlock and spacer; any other is the document before its last line, then
\* that line's block.
RECURSIVE ExpectedBlocks(_)
ExpectedBlocks(ls) ==
    IF ls = <<>> THEN <<>>
    ELSE LET n == Len(ls) IN
         IF IsBulletLine(ls[n])
         THEN LET r == CHOOSE q \in Runs(ls) : q[2] = n
              IN  ExpectedBlocks(SubSeq(ls, 1, r[1] - 1))
                    \o <<ListBlock(RunTexts(ls, r)), Blank(4)>>
         ELSE ExpectedBlocks(SubSeq(ls, 1, n - 1)) \o <<LineBlock(ls[n])>>

LoopOver == pc \in {"build", "done", "failed"}

(***************************************************************************)
(* Claims about markdown_to_flowables and write_pdf (specification Spec).  *)
(***************************************************************************)

\* C1: the texts carried by the emitted blocks, read in block order (Heading
\* and Paragraph texts and every ListBlock item, Blank spacers ignored), are
\* exactly the non-blank lines of the input in their original order, each
\* with its heading or bullet marker stripped: after every pass this holds of
\* the lines consumed so far, and when the loop is over of all the lines, so
\* that no non-blank line is lost, duplicated or reordered.
C1_TextsPreserved ==
    /\ pc # "call" => FlowTexts(flow) = ExpectedTexts(SubSeq(lines, 1, i))
    /\ LoopOver => FlowTexts(flow) = ExpectedTexts(lines)

C1_Witness ==
    /\ pc = "done"
    /\ \E r \in Runs(lines) : r[2] > r[1]
    /\ \E k \in 1..Len(lines) : IsBlankText(lines[k])
    /\ \E k \in 1..Len(lines) : IsH3Line(lines[k])
    /\ \E k \in 1..Len(lines) : LineBlock(lines[k]) = PlainText(TrimRight(lines[k]))
    /\ Len(FlowTexts(flow)) >= 4

\* C2: every maximal run of consecutive bullet lines produces exactly one
\* ListBlock immediately followed by exactly one Blank spacer; the ListBlock
\* has one item per line of the run, in order (an empty item for a line that
\* is only the marker); the first line after the run is not consumed by the
\* run: its own block follows the spacer; and the scan never stands inside a
\* run between two passes.
C2_BulletRuns ==
    /\ (pc = "loop" /\ 0 < i /\ i < Len(lines))
          => ~(IsBulletLine(lines[i]) /\ IsBulletLine(lines[i + 1]))
    /\ LoopOver =>
          /\ Cardinality(ListBlockAt(flow)) = Cardinality(Runs(lines))
          /\ Cardinality({k \in 1..Len(flow) : flow[k] = Blank(4)}) = Cardinality(Runs(lines))
          /\ \A n \in 1..Cardinality(Runs(lines)) :
                LET r == RunFrom(lines, Nth(RunStarts(lines), n))
                    k == Nth(ListBlockAt(flow), n)
                IN  /\ Len(flow[k].items) = r[2] - r[1] + 1
                    /\ flow[k] = ListBlock(RunTexts(lines, r))
                    /\ k < Len(flow)
                    /\ flow[k + 1] = Blank(4)
                    /\ IF r[2] < Len(lines)
                       THEN k + 2 <= Len(flow) /\ flow[k + 2] = LineBlock(lines[r[2] + 1])
                       ELSE Len(flow) = k + 1

C2_Witness ==
    /\ pc = "done"
    /\ Cardinality(Runs(lines)) >= 2
    /\ \E r \in Runs(lines) :
          /\ r[2] > r[1]
          /\ r[2] < Len(lines)
          /\ IsBlankText(lines[r[2] + 1])
          /\ \E k \in 1..Len(RunTexts(lines, r)) : RunTexts(lines, r)[k] = <<>>

\* C3 as amended: every line that, with its trailing whitespace trimmed,
\* starts with "## " is emitted as Heading(2, text) and every line that then
\* starts with "### " as Heading(3, text), where text is the remainder of the
\* trimmed line with the whitespace around it stripped; each such line is the
\* only line of its pass, yields exactly one block and advances the scan by
\* one line.
C3_Headings ==
    [][(pc = "loop" /\ pc' = "loop") =>
          \A k \in (i + 1)..i' :
             /\ IsH2Line(lines[k]) =>
                   /\ k = i + 1 /\ i' = i + 1
                   /\ flow' = Append(flow, Heading(2, Trim(Drop(TrimRight(lines[k]), 3))))
             /\ IsH3Line(lines[k]) =>
                   /\ k = i + 1 /\ i' = i + 1
                   /\ flow' = Append(flow, Heading(3, Trim(Drop(TrimRight(lines[k]), 4))))
      ]_vars

C3_Witness ==
    /\ pc = "loop"
    /\ i >= 2
    /\ IsH2Line(lines[i])
    /\ flow[Len(flow)] = Heading(2, Unmarked(lines[i]))
    /\ \E k \in 1..(i - 1) : IsH3Line(lines[k]) /\ Drop(TrimRight(lines[k]), 4) # Unmarked(lines[k])
    /\ \E k \in 1..Len(flow) : flow[k].kind = "Paragraph" /\ flow[k].style = "H3"

\* C3 as stated: the line last consumed, when it is non-blank and starts with
\* "## " (with "### "), has been emitted as Heading(2, text) (Heading(3, text))
\* with text the remainder of the line (trailing whitespace apart).
C3_Original ==
    (pc # "call" /\ i >= 1 /\ ~IsBlankText(lines[i])) =>
        /\ HasPrefix(lines[i], <<"#", "#", " ">>)
              => flow[Len(flow)] = Heading(2, TrimRight(Drop(lines[i], 3)))
        /\ HasPrefix(lines[i], <<"#", "#", "#", " ">>)
              => flow[Len(flow)] = Heading(3, TrimRight(Drop(lines[i], 4)))

\* C4: the blocks are in source line order, one block per blank, heading or
\* paragraph line and one ListBlock plus one Blank per bullet run; the six
\* lines of the scenario give exactly its six blocks.
C4_BlockOrder ==
    LoopOver =>
        /\ flow = ExpectedBlocks(lines)
        /\ Len(flow) = Cardinality({k \in 1..Len(lines) : ~IsBulletLine(lines[k])})
                         + 2 * Cardinality(Runs(lines))
        /\ md_text = ScenarioText =>
              /\ Len(lines) = 6
              /\ flow = << Heading(2, <<"T", "r", "i", "p", " ", "O", "v", "e", "r", "v", "i", "e", "w">>),
                           PlainText(<<"S", "a", "m", "p", "l", "e", " ", "t", "e", "x", "t", ".">>),
                           Blank(6),
                           Heading(3, <<"D", "a", "y", " ", "1">>),
                           ListBlock(<< <<"M", "u", "s", "e", "u", "m", " ", "v", "i", "s", "i", "t">>,
                                        <<"C", "o", "f", "f", "e", "e", " ", "b", "r", "e", "a", "k">> >>),
                           Blank(4) >>

C4_Witness == pc = "done" /\ md_text = ScenarioText /\ Len(flow) = 6

\* C5: the scan terminates: every pass of the loop, whichever branch it
\* takes, strictly increases the line index and stays within the lines; the
\* loop is left exactly when all lines are consumed; once entered it is left;
\* and the empty text yields no block.
C5_Terminates ==
    /\ [][(pc = "loop" /\ pc' = "loop") => (i < Len(lines) /\ i < i' /\ i' <= Len(lines))]_vars
    /\ [][(pc = "loop" /\ pc' # "loop") => i = Len(lines)]_vars
    /\ [](LoopOver /\ md_text = <<>> => flow = <<>>)
    /\ (pc = "loop") ~> LoopOver

C5_Witness ==
    /\ pc = "done"
    /\ i = Len(lines)
    /\ \A b \in {"blank", "h2", "h3", "bullets", "paragraph"} :
          \E k \in 0..(Len(lines) - 1) : Branch(lines, k) = b

\* C8: for every text, the empty one included, the story handed to the
\* document builder starts with the title "Travel Plan", then the
\* "Generated: ..." line, and the content blocks come only after them, in
\* the order they were emitted.
C8_StoryOrder ==
    /\ pc # "call" =>
          /\ Len(story) >= 3
          /\ story[1].kind = "Paragraph"
          /\ story[1].text = <<"T", "r", "a", "v", "e", "l", " ", "P", "l", "a", "n">>
          /\ story[2].kind = "Paragraph"
          /\ story[2].text = <<"Generated: ", now>>
          /\ story[3] = Spacer(1, 10)
    /\ pc = "loop" => Len(story) = 3
    /\ LoopOver => SubSeq(story, 4, Len(story)) = flow

C8_Witness == pc = "build" /\ Len(flow) >= 3 /\ Len(story) = Len(flow) + 3

C8_WitnessEmpty == pc = "build" /\ md_text = <<>> /\ Len(story) = 3

(***************************************************************************)
(* Claims about the script and get_plan_markdown (specification AppSpec).  *)
(***************************************************************************)
Plan == session_state["plan_md"]
Shows(scr, what, text) == \E k \in 1..Len(scr) : scr[k] = W(what, text)
Puts(scr, what) == \E k \in 1..Len(scr) : scr[k].w = what
ShowsBefore(scr, what, text, later) ==
    \E k \in 1..Len(scr) :
       /\ scr[k] = W(what, text)
       /\ \A j \in 1..Len(scr) : scr[j].w = later => k < j

\* the text of what the API answered, empty when it raised or answered blank
RECURSIVE JoinedParts(_)
JoinedParts(ps) ==
    IF ps = <<>> THEN <<>>
    ELSE IF Head(ps).type = "other" THEN JoinedParts(Tail(ps))
    ELSE IF JoinedParts(Tail(ps)) = <<>> /\ \A k \in 1..Len(Tail(ps)) : Tail(ps)[k].type = "other"
         THEN Head(ps).val
         ELSE Head(ps).val \o <<"\n">> \o JoinedParts(Tail(ps))

ResponseText(r) ==
    IF r.kind = "error" THEN <<>>
    ELSE IF r.content.type = "str"
         THEN (IF IsBlankText(r.content.text) THEN <<>> ELSE r.content.text)
    ELSE IF r.content.type = "list" THEN Trim(JoinedParts(r.content.parts))
    ELSE <<>>

NonBlankResponse(r) == ~IsBlankText(ResponseText(r))

\* C6: when write_pdf fails in a submitted run, the plan stays available: it
\* was put on the page before the export was attempted, the failure is
\* reported after it (error, then the hint that the plan can still be
\* copied, no download button), plan_md is what it was before the export
\* (the text just generated, or the earlier plan when nothing was generated),
\* and every later run that is neither a submit nor a reset shows it again.
C6_PlanKeptOnPdfFailure ==
    [][ /\ (event'.kind = "submit" /\ event'.pdf = "failed") =>
              /\ ~IsBlankText(Plan')
              /\ Plan' = (IF event'.gen = "ok" THEN event'.text ELSE Plan)
              /\ ShowsBefore(screen', "markdown", Plan', "error_pdf")
              /\ Puts(screen', "error_pdf")
              /\ Puts(screen', "info_copy")
              /\ ~Puts(screen', "download_button")
        /\ (event'.kind \in {"rerun", "selftest", "clear_fields"} /\ ~IsBlankText(Plan)) =>
              /\ Plan' = Plan
              /\ Shows(screen', "markdown", Plan)
      ]_vars

C6_Witness ==
    /\ event.kind = "rerun"
    /\ pc = "failed"
    /\ md_text = Plan
    /\ ~IsBlankText(Plan)
    /\ Shows(screen, "markdown", Plan)

\* C7: in a submitted run in which get_plan_markdown raises (as it does when
\* every model raises or returns blank text), write_pdf is not invoked:
\* nothing of a write_pdf call changes, plan_md is the empty string, and the
\* page reports the failure and offers no PDF.
C7_NoPdfOnGenerationFailure ==
    /\ []((event.kind = "submit" /\ event.gen # "none") =>
            /\ (\A k \in 1..Len(event.resp) : ~NonBlankResponse(event.resp[k]))
                  => event.gen = "raised"
            /\ event.gen = "raised" =>
                  /\ event.pdf = "none"
                  /\ Plan = <<>>
                  /\ Puts(screen, "error_generation")
                  /\ ~Puts(screen, "download_button")
                  /\ ~Puts(screen, "error_pdf")
                  /\ ~Puts(screen, "markdown"))
    /\ [][(event'.kind = "submit" /\ event'.gen = "raised") => UNCHANGED pdfVars]_vars

C7_Witness ==
    /\ event.kind = "submit"
    /\ event.gen = "raised"
    /\ pc = "done"
    /\ ~IsBlankText(md_text)
    /\ Plan = <<>>
    /\ \E k \in 1..3 : event.resp[k].kind = "completion"

\* C9: get_plan_markdown calls the models of FALLBACK_MODELS in list order,
\* each at most once; every model called before the last one called raised
\* or answered blank; when it returns, the last model called answered
\* non-blank, the text returned is that answer, and last_model_used and
\* last_usage record that model and its usage; when it raises, all models
\* were called, none answered non-blank, and last_model_used and last_usage
\* are as they were.
C9_FallbackOrder ==
    /\ []((event.kind = "submit" /\ event.gen # "none") =>
            LET n == Len(event.attempts) IN
            /\ n >= 1 /\ n <= Len(FALLBACK_MODELS)
            /\ \A k \in 1..n : event.attempts[k] = FALLBACK_MODELS[k]
            /\ \A k \in 1..(n - 1) : ~NonBlankResponse(event.resp[k])
            /\ event.gen = "ok" =>
                  /\ NonBlankResponse(event.resp[n])
                  /\ event.text = ResponseText(event.resp[n])
                  /\ Has(session_state, "last_model_used")
                  /\ session_state["last_model_used"] = FALLBACK_MODELS[n]
                  /\ Has(session_state, "last_usage")
                  /\ session_state["last_usage"] = event.resp[n].usage
            /\ event.gen = "raised" =>
                  /\ n = Len(FALLBACK_MODELS)
                  /\ ~NonBlankResponse(event.resp[n]))
    /\ [][(event'.kind = "submit" /\ event'.gen = "raised") =>
             \A key \in {"last_model_used", "last_usage"} :
                /\ Has(session_state', key) <=> Has(session_state, key)
                /\ Has(session_state, key) => session_state'[key] = session_state[key]
         ]_vars

C9_Witness ==
    /\ event.kind = "submit"
    /\ event.gen = "ok"
    /\ Len(event.attempts) = 3
    /\ event.resp[1].kind = "error"
    /\ event.resp[2].kind = "completion"
    /\ event.resp[3].content.type = "list"
    /\ session_state["last_model_used"] = "gpt-4.1"

FormIsDefault(ss) ==
    /\ ss["destination"] = <<>>
    /\ ss["num_days"] = 3
    /\ ss["interests"] = <<>>
    /\ ss["guardrails"] = <<>>

SameKey(ss, tt, key) ==
    /\ Has(ss, key) <=> Has(tt, key)
    /\ Has(ss, key) => ss[key] = tt[key]

\* C10: clear_fields_only_callback resets the four form fields to their
\* defaults and leaves plan_md, last_model_used and last_usage as they were;
\* reset_all_callback resets the fields, empties plan_md and removes
\* last_model_used and last_usage; and plan_md, once not empty, changes only
\* in a reset_all or in a submitted run whose generation succeeds or fails.
C10_CallbackFrames ==
    [][ /\ event'.kind = "clear_fields" =>
              /\ FormIsDefault(session_state')
              /\ Plan' = Plan
              /\ SameKey(session_state', session_state, "last_model_used")
              /\ SameKey(session_state', session_state, "last_usage")
        /\ event'.kind = "reset_all" =>
              /\ FormIsDefault(session_state')
              /\ Plan' = <<>>
              /\ ~Has(session_state', "last_model_used")
              /\ ~Has(session_state', "last_usage")
        /\ (Plan # <<>> /\ Plan' # Plan) =>
              \/ event'.kind = "reset_all"
              \/ event'.kind = "submit" /\ event'.gen \in {"ok", "raised"}
      ]_vars

C10_Witness ==
    /\ event.kind = "clear_fields"
    /\ FormIsDefault(session_state)
    /\ Plan # <<>>
    /\ Has(session_state, "last_model_used")
    /\ pc = "done"

C10_WitnessReset ==
    /\ event.kind = "reset_all"
    /\ pc = "done"
    /\ Plan = <<>>
    /\ ~Has(session_state, "last_usage")

====
